---- MODULE Spec2Model ----
(***************************************************************************)
(* A model of src/app.py: the Saheli chat service.  One WomensSupportAI    *)
(* object (`assistant`) is created at import time and every POST /chat     *)
(* request is answered by assistant.process_message.                       *)
(*                                                                         *)
(* Texts are TLA+ strings and the string functions of the source (lower,   *)
(* `in`, re.search, title, join) are computed character by character.      *)
(* A Fernet token is modelled as the plaintext behind the fixed token      *)
(* prefix: it is opaque to everything but _decrypt_data.  Timestamps and   *)
(* the prose of the system prompt are left out; the emoji of the reply     *)
(* templates are dropped and the long step lists are cut to their first    *)
(* entries.                                                                *)
(***************************************************************************)
EXTENDS Integers, Sequences, FiniteSets, TLC

\* The number of entries chat_history holds at most in one run.
MaxHistory == 4

(***************************************************************************)
(* Python string functions                                                 *)
(***************************************************************************)

\* Python `phrase in text`
Contains(text, phrase) ==
    \E i \in 1..(Len(text) - Len(phrase) + 1) :
        SubSeq(text, i, i + Len(phrase) - 1) = phrase

StartsWith(text, prefix) ==
    Len(prefix) <= Len(text) /\ SubSeq(text, 1, Len(prefix)) = prefix

CharAt(s, i) == SubSeq(s, i, i)

UpperToLower ==
    [A |-> "a", B |-> "b", C |-> "c", D |-> "d", E |-> "e", F |-> "f",
     G |-> "g", H |-> "h", I |-> "i", J |-> "j", K |-> "k", L |-> "l",
     M |-> "m", N |-> "n", O |-> "o", P |-> "p", Q |-> "q", R |-> "r",
     S |-> "s", T |-> "t", U |-> "u", V |-> "v", W |-> "w", X |-> "x",
     Y |-> "y", Z |-> "z"]

LowerToUpper ==
    [a |-> "A", b |-> "B", c |-> "C", d |-> "D", e |-> "E", f |-> "F",
     g |-> "G", h |-> "H", i |-> "I", j |-> "J", k |-> "K", l |-> "L",
     m |-> "M", n |-> "N", o |-> "O", p |-> "P", q |-> "Q", r |-> "R",
     s |-> "S", t |-> "T", u |-> "U", v |-> "V", w |-> "W", x |-> "X",
     y |-> "Y", z |-> "Z"]

LowerChar(c) == IF c \in DOMAIN UpperToLower THEN UpperToLower[c] ELSE c
UpperChar(c) == IF c \in DOMAIN LowerToUpper THEN LowerToUpper[c] ELSE c

\* [a-zA-Z] and \s of the regular expressions
IsLetter(c) == c \in DOMAIN UpperToLower \/ c \in DOMAIN LowerToUpper
IsSpace(c) == c \in {" ", "\t", "\n", "\r"}

\* str.lower()
RECURSIVE lower(_)
lower(s) ==
    IF s = "" THEN ""
    ELSE LowerChar(CharAt(s, 1)) \o lower(SubSeq(s, 2, Len(s)))

\* str.title(): a letter is upper-cased after a non-letter, lower-cased
\* after a letter
RECURSIVE TitleFrom(_, _, _)
TitleFrom(s, i, afterLetter) ==
    IF i > Len(s) THEN ""
    ELSE LET c == CharAt(s, i)
         IN (IF afterLetter THEN LowerChar(c) ELSE UpperChar(c))
                \o TitleFrom(s, i + 1, IsLetter(c))

title(s) == TitleFrom(s, 1, FALSE)

\* str.strip()
RECURSIVE strip(_)
strip(s) ==
    IF s = "" THEN ""
    ELSE IF IsSpace(CharAt(s, 1)) THEN strip(SubSeq(s, 2, Len(s)))
    ELSE IF IsSpace(CharAt(s, Len(s))) THEN strip(SubSeq(s, 1, Len(s) - 1))
    ELSE s

\* sep.join(parts)
RECURSIVE join(_, _)
join(sep, parts) ==
    IF parts = <<>> THEN ""
    ELSE IF Len(parts) = 1 THEN parts[1]
    ELSE parts[1] \o sep \o join(sep, Tail(parts))

\* any(word in text for word in words)
AnyIn(words, text) == \E i \in 1..Len(words) : Contains(text, words[i])

(***************************************************************************)
(* re.search of the two patterns of _update_user_context: one of several  *)
(* alternatives, any white space, then group 1: words of letters, one      *)
(* white space between two words.                                          *)
(* The result is <<>> for no match and <<group 1>> for a match.            *)
(***************************************************************************)

\* the first index from i on that holds no white space (\s* is greedy, and
\* a letter cannot follow after giving a space back)
RECURSIVE SkipSpaces(_, _)
SkipSpaces(t, i) ==
    IF i <= Len(t) /\ IsSpace(CharAt(t, i)) THEN SkipSpaces(t, i + 1) ELSE i

\* the last index of [a-zA-Z]+ started at i
RECURSIVE LettersEnd(_, _)
LettersEnd(t, i) ==
    IF i + 1 <= Len(t) /\ IsLetter(CharAt(t, i + 1))
    THEN LettersEnd(t, i + 1) ELSE i

\* the last index of [a-zA-Z]+(?:\s[a-zA-Z]+)* started at i
RECURSIVE WordsEnd(_, _)
WordsEnd(t, i) ==
    LET e == LettersEnd(t, i)
    IN IF e + 2 <= Len(t) /\ IsSpace(CharAt(t, e + 1)) /\ IsLetter(CharAt(t, e + 2))
       THEN WordsEnd(t, e + 2) ELSE e

\* one alternative tried at position i
AltGroup(t, i, alt) ==
    IF i + Len(alt) - 1 <= Len(t) /\ SubSeq(t, i, i + Len(alt) - 1) = alt
    THEN LET k == SkipSpaces(t, i + Len(alt))
         IN IF k <= Len(t) /\ IsLetter(CharAt(t, k))
            THEN <<SubSeq(t, k, WordsEnd(t, k))>> ELSE <<>>
    ELSE <<>>

\* the alternatives are tried in the order written
RECURSIVE FirstAlt(_, _, _, _)
FirstAlt(t, i, alts, a) ==
    IF a > Len(alts) THEN <<>>
    ELSE IF AltGroup(t, i, alts[a]) # <<>> THEN AltGroup(t, i, alts[a])
    ELSE FirstAlt(t, i, alts, a + 1)

\* the leftmost position that matches wins
RECURSIVE SearchFrom(_, _, _)
SearchFrom(t, i, alts) ==
    IF i > Len(t) THEN <<>>
    ELSE IF FirstAlt(t, i, alts, 1) # <<>> THEN FirstAlt(t, i, alts, 1)
    ELSE SearchFrom(t, i + 1, alts)

re_search(alts, t) == SearchFrom(t, 1, alts)

(***************************************************************************)
(* Cipher: Fernet tokens                                                   *)
(***************************************************************************)

\* Every Fernet token starts with the version byte 0x80, "gAAAAA" in
\* base64; the rest stands for the encrypted payload.
TokenPrefix == "gAAAAA:"

IsToken(c) == StartsWith(c, TokenPrefix)

\* cipher_suite.encrypt(str(item).encode('utf-8')).decode('utf-8')
encrypt(item) == TokenPrefix \o item

\* decrypt as it would be with a .strip() after the .decode('utf-8')
decrypt_stripped(c) == strip(SubSeq(c, Len(TokenPrefix) + 1, Len(c)))

\* cipher_suite.decrypt(...): raises InvalidToken unless IsToken(c)
decrypt(c) == SubSeq(c, Len(TokenPrefix) + 1, Len(c))

\* _encrypt_data / _decrypt_data on a str and on a list
_encrypt_data(data) == encrypt(data)
_encrypt_list(data) == [i \in 1..Len(data) |-> encrypt(data[i])]
_decrypt_data(encrypted_data) == decrypt(encrypted_data)
_decrypt_list(encrypted_data) ==
    [i \in 1..Len(encrypted_data) |-> decrypt(encrypted_data[i])]

(***************************************************************************)
(* WomensSupportAI.__init__: the tables                                    *)
(***************************************************************************)

emergency_keywords ==
    [hindi |->
        [critical |-> <<"balatkar", "maarte", "marpit", "jaan se maar",
                        "khudkushi", "mara ja raha", "hatya", "rape">>,
         high |-> <<"hinsa", "pareshani", "madad", "bachao", "attack",
                    "maar-peet", "pareshaan", "dhokha", "torture">>,
         medium |-> <<"tension", "dikkat", "sahayata", "bhaya", "chinta",
                      "dukh", "sad", "akelapan">>],
     english |->
        [critical |-> <<"rape", "kill myself", "suicide", "dying", "abuse",
                        "assaulted", "murdered", "threatened to kill",
                        "kidnapped", "forced">>,
         high |-> <<"violence", "emergency", "help me", "attack", "hit me",
                    "molested", "harassed", "beaten", "dangerous", "unsafe",
                    "threat">>,
         medium |-> <<"scared", "worried", "trouble", "anxious", "depressed",
                      "sad", "stressed", "alone", "unwell">>],
     marathi |->
        [critical |-> <<"balatkar", "marun tak", "aatmahatya", "hala", "hiv",
                        "hivda", "jivan sampavnyachi">>,
         high |-> <<"hinsa", "madat", "aatank", "hamla", "mar", "pida",
                    "ghabrleli", "doka">>,
         medium |-> <<"tasa", "bhiti", "sahayy", "ghabrel", "chinta", "dukh",
                      "ekaki">>]]

\* .get(current_lang, {}) of a language that has no table
NoKeywords == [critical |-> <<>>, high |-> <<>>, medium |-> <<>>]

safety_protocols ==
    [critical |->
        [message |-> "IMMEDIATE DANGER DETECTED Your safety is our utmost priority.",
         actions |-> <<
            "Call **112** (India Emergency Services) immediately.",
            "Contact local police (**100**) or Women's Helpline (**1091**).",
            "If safe, share your live location with a trusted contact or emergency services.",
            "Try to move to a safe, public, and well-lit location if possible.",
            "Do not confront the perpetrator. Focus on getting to safety.">>],
     high |->
        [message |-> "URGENT HELP NEEDED I'm here to support you.",
         actions |-> <<
            "Contact Women's Helpline (**1091**) or your nearest police station (**100**).",
            "Reach out to a trusted friend, family member, or a local NGO for immediate support.",
            "If you feel unsafe at your current location, try to get to a trusted friend's house, a relative's, or a public place.",
            "Document any incidents (dates, times, descriptions, photos) if it's safe to do so.">>],
     medium |->
        [message |-> "SUPPORT NEEDED You are not alone in this.",
         actions |-> <<
            "Consider contacting a counseling service or a mental health professional for emotional support.",
            "Explore local support groups or community organizations that can provide assistance.",
            "Would you like to talk more about what's happening or explore specific resources?">>],
     low |->
        [message |-> "I'm here to listen and support you.",
         actions |-> <<
            "Sometimes just talking helps. Tell me more about what's on your mind.",
            "Would you like information on general well-being or local support groups?",
            "Remember, taking care of your mental and emotional health is very important.">>]]

\* _load_legal_resources: the steps are stored encrypted
legal_resources ==
    [domestic_violence |->
        [laws |-> <<"Protection of Women from Domestic Violence Act, 2005 (PWDVA)",
                    "Section 498A IPC (Cruelty by Husband or Relatives)">>,
         helplines |-> <<"1091 (Women Helpline)", "181 (Women in Distress)",
                         "100 (Police Emergency)",
                         "National Commission for Women (NCW) - 14408 / complaintcell-ncw@nic.in">>,
         steps |-> _encrypt_list(<<
            "1. Prioritize your immediate safety. If in danger, call 112 or 100.">>)],
     sexual_assault |->
        [laws |-> <<"Section 376 IPC (Rape)",
                    "Section 354 IPC (Assault or criminal force to woman with intent to outrage her modesty)",
                    "Protection of Children from Sexual Offences (POCSO) Act, 2012 (if victim is a minor)">>,
         helplines |-> <<"1091 (Women Helpline)", "181 (Women in Distress)",
                         "100 (Police Emergency)", "1098 (Childline India for minors)">>,
         steps |-> _encrypt_list(<<
            "1. Do NOT wash, shower, change clothes, or clean the crime scene. Preserve all potential evidence.">>)],
     cyber_crime |->
        [laws |-> <<"Information Technology Act, 2000 (especially Section 66E for privacy, 67 for obscenity, 67A for child pornography)",
                    "Sections of IPC related to defamation, stalking, etc.">>,
         helplines |-> <<"1930 (National Cyber Crime Helpline)",
                         "www.cybercrime.gov.in (National Cybercrime Reporting Portal)">>,
         steps |-> _encrypt_list(<<
            "1. Do NOT delete any evidence. Take screenshots, save URLs, messages, emails, and any other digital proof.">>)],
     marriage_related_laws |->
        [laws |-> <<"Hindu Marriage Act, 1955", "Special Marriage Act, 1954",
                    "Dowry Prohibition Act, 1961", "Muslim Personal Law">>,
         helplines |-> <<"1091 (Women Helpline)",
                         "Legal Aid Services through District Legal Services Authorities (DLSA)">>,
         steps |-> _encrypt_list(<<
            "1. Understand your rights regarding marriage, divorce, alimony, and child custody.">>)],
     workplace_harassment |->
        [laws |-> <<"Sexual Harassment of Women at Workplace (Prevention, Prohibition and Redressal) Act, 2013 (POSH Act)">>,
         helplines |-> <<"National Commission for Women (NCW)",
                         "NGOs specializing in workplace rights">>,
         steps |-> _encrypt_list(<<
            "1. Document incidents with dates, times, witnesses, and details.">>)]]

\* _load_medical_resources: the fields _handle_emergency reads, stored
\* encrypted
medical_guidance ==
    [emergency_contraception |->
        [confidentiality_notice |-> _encrypt_data(
            "All medical services related to sexual health, including emergency contraception and MTP (Medical Termination of Pregnancy), are confidential.")],
     mental_health |->
        [resources |-> _encrypt_list(<<
            "NIMHANS (National Institute of Mental Health and Neurosciences) helpline: 080-46110007 (24/7, multi-lingual)",
            "iCall (Tata Institute of Social Sciences): 9152987821 (Mon-Sat, 8 AM - 10 PM)">>),
         steps |-> _encrypt_list(<<
            "1. Talk to a trusted friend, family member, or a counselor about your feelings and experiences.">>)],
     reproductive_health |-> [topics |-> <<"Menstrual Health">>],
     general_health |->
        [resources |-> _encrypt_list(<<"National Health Helpline: 104">>),
         steps |-> _encrypt_list(<<
            "1. Schedule regular health check-ups, especially after age 30.">>)]]

\* self.user_context of a new object; None and [] are both <<>>, a set
\* optional field is a sequence of one value
InitialUserContext ==
    [name |-> <<>>,
     location |-> <<>>,
     emergency_contacts |-> <<>>,
     previous_issues |-> <<>>,
     current_situation |-> <<>>,
     medical_history |-> <<>>,
     preferred_language |-> "en",
     risk_level |-> 0,
     emotional_state |-> "neutral"]

(***************************************************************************)
(* The methods of WomensSupportAI, as operators on the object's fields     *)
(***************************************************************************)

Range(f) == {f[i] : i \in DOMAIN f}

\* the message texts the clients send
Messages ==
    {"he is trying to kill me",
     "mujhe bahut tension hai",
     "hi",
     "english please help me",
     "he raped me, help me, i am scared",
     "i want a divorce",
     "my name is priya, i live in pune",
     "marathi",
     "  "}

\* the values preferred_language takes: the initial one and the three
\* _update_user_context assigns
LanguageValues == {"en", "hindi", "marathi", "english"}

\* the scan of detect_emergency, current_lang being the session's
\* preferred_language: (is_emergency, emergency_type, risk_level)
ScanKeywords(user_input, current_lang) ==
    LET user_input_lower == lower(user_input)
        keywords == IF current_lang \in DOMAIN emergency_keywords
                    THEN emergency_keywords[current_lang] ELSE NoKeywords
    IN  IF AnyIn(keywords.critical, user_input_lower)
        THEN [is_emergency |-> TRUE, emergency_type |-> "critical", risk_level |-> 10]
        ELSE IF AnyIn(keywords.high, user_input_lower)
        THEN [is_emergency |-> TRUE, emergency_type |-> "high", risk_level |-> 8]
        ELSE IF AnyIn(keywords.medium, user_input_lower)
        THEN [is_emergency |-> TRUE, emergency_type |-> "medium", risk_level |-> 5]
        ELSE [is_emergency |-> FALSE, emergency_type |-> "low", risk_level |-> 0]

\* the scan of every message in every language, computed once
Scanned == [t \in Messages |-> [l \in LanguageValues |-> ScanKeywords(t, l)]]

detect_emergency(user_input, user_context) ==
    Scanned[user_input][user_context.preferred_language]

classify_issue_type(user_input) ==
    LET user_input_lower == lower(user_input)
    IN  IF AnyIn(<<"rape", "sexual assault", "balatkar", "molest", "shameful",
                   "touch", "force">>, user_input_lower)
        THEN "sexual_assault"
        ELSE IF AnyIn(<<"husband", "violence", "abuse", "marpit", "maarpeet",
                        "domestic", "in-laws", "beaten", "control", "threaten">>,
                      user_input_lower)
        THEN "domestic_violence"
        ELSE IF AnyIn(<<"pregnant", "contraception", "period", "health",
                        "medical", "clinic", "gyno", "doctor", "illness",
                        "symptoms">>, user_input_lower)
        THEN "medical"
        ELSE IF AnyIn(<<"depressed", "suicide", "mental", "anxiety", "stress",
                        "tension", "sad", "alone", "therapy", "counseling">>,
                      user_input_lower)
        THEN "mental_health"
        ELSE IF AnyIn(<<"online", "cyber", "harassment", "phishing", "scam",
                        "digital", "stalking", "mms", "video">>, user_input_lower)
        THEN "cyber_crime"
        ELSE IF AnyIn(<<"marriage", "divorce", "alimony", "custody", "dowry",
                        "wedding">>, user_input_lower)
        THEN "marriage_related_laws"
        ELSE IF AnyIn(<<"workplace", "office", "posh", "harass", "colleague",
                        "boss">>, user_input_lower)
        THEN "workplace_harassment"
        ELSE "general"

NamePatterns == <<"my name is", "i am", "mera naam hai", "mai hu", "i'm">>
LocationPatterns == <<"from", "in", "live in", "near", "near to", "reside in">>

\* the emotional_state chain of _update_user_context; "" is `else: pass`
EmotionalState(user_input_lower) ==
    IF AnyIn(<<"sad", "depressed", "unhappy", "crying", "emotional">>, user_input_lower)
    THEN "sad/distressed"
    ELSE IF AnyIn(<<"scared", "fear", "anxious", "worried", "nervous">>, user_input_lower)
    THEN "anxious/fearful"
    ELSE IF AnyIn(<<"angry", "frustrated", "mad">>, user_input_lower)
    THEN "angry/frustrated"
    ELSE IF AnyIn(<<"happy", "fine", "good", "okay">>, user_input_lower)
    THEN "positive/neutral"
    ELSE ""

\* the preferred_language chain of _update_user_context; "" when no
\* branch is taken
PreferredLanguage(user_input_lower) ==
    IF Contains(user_input_lower, "hindi") \/ Contains(user_input_lower, "hi")
    THEN "hindi"
    ELSE IF Contains(user_input_lower, "marathi")
    THEN "marathi"
    ELSE IF Contains(user_input_lower, "english") \/ Contains(user_input_lower, "eng")
    THEN "english"
    ELSE ""

\* the value _update_user_context assigns to name (location) when the
\* field is not set yet: <<>> for no match
MatchedName(user_input_lower) ==
    LET name_match == re_search(NamePatterns, user_input_lower)
    IN  IF name_match # <<>> THEN <<_encrypt_data(title(strip(name_match[1])))>> ELSE <<>>

MatchedLocation(user_input_lower) ==
    LET location_match == re_search(LocationPatterns, user_input_lower)
    IN  IF location_match # <<>>
        THEN <<_encrypt_data(title(strip(location_match[1])))>> ELSE <<>>

\* what _update_user_context computes from the text alone
ReadText(user_input) ==
    LET user_input_lower == lower(user_input)
    IN  [name |-> MatchedName(user_input_lower),
         location |-> MatchedLocation(user_input_lower),
         issue_type |-> classify_issue_type(user_input),
         emotional_state |-> EmotionalState(user_input_lower),
         preferred_language |-> PreferredLanguage(user_input_lower)]

\* ReadText of every message, computed once
TextRead == [t \in Messages |-> ReadText(t)]

\* the previous_issues update of _update_user_context
PreviousIssues(issue_type, previous_issues) ==
    LET decrypted_issues == _decrypt_list(previous_issues)
    IN  IF issue_type # "" /\ issue_type # "general"
           /\ issue_type \notin Range(decrypted_issues)
        THEN _encrypt_list(Append(decrypted_issues, issue_type))
        ELSE previous_issues

\* _update_user_context as it would be if a text that asks for the
\* language the session has already switched the language back to the
\* initial one
_update_user_context_toggle(user_context, user_input) ==
    LET read == TextRead[user_input]
    IN  [user_context EXCEPT
            !.name = IF @ = <<>> THEN read.name ELSE @,
            !.location = IF @ = <<>> THEN read.location ELSE @,
            !.previous_issues = PreviousIssues(read.issue_type, @),
            !.current_situation = <<_encrypt_data(read.issue_type)>>,
            !.emotional_state =
                IF read.emotional_state # "" THEN read.emotional_state ELSE @,
            !.preferred_language =
                IF read.preferred_language = "" THEN @
                ELSE IF read.preferred_language = @ THEN "en"
                ELSE read.preferred_language]

_update_user_context(user_context, user_input) ==
    LET read == TextRead[user_input]
    IN  [user_context EXCEPT
            !.name = IF @ = <<>> THEN read.name ELSE @,
            !.location = IF @ = <<>> THEN read.location ELSE @,
            !.previous_issues = PreviousIssues(read.issue_type, @),
            !.current_situation = <<_encrypt_data(read.issue_type)>>,
            !.emotional_state =
                IF read.emotional_state # "" THEN read.emotional_state ELSE @,
            !.preferred_language =
                IF read.preferred_language # "" THEN read.preferred_language ELSE @]

Bullets(prefix, items) == [i \in 1..Len(items) |-> prefix \o items[i]]

\* the legal section of _handle_emergency
LegalSection(issue) ==
    IF issue \in DOMAIN legal_resources
    THEN LET legal_info == legal_resources[issue]
         IN <<"\nRelevant Legal Information:",
              "  - Key Laws: " \o join(", ", legal_info.laws),
              "  - Important Steps:\n"
                  \o join("\n", Bullets("    * ", _decrypt_list(legal_info.steps))),
              "  - Helplines: " \o join(", ", legal_info.helplines)>>
    ELSE <<>>

\* the medical section of _handle_emergency
MedicalSection(issue) ==
    IF issue \in DOMAIN medical_guidance
    THEN LET medical_info == medical_guidance[issue]
         IN <<"\nRelevant Medical/Health Information:">>
            \o (IF "confidentiality_notice" \in DOMAIN medical_info
                THEN <<"  - Confidentiality: "
                        \o _decrypt_data(medical_info.confidentiality_notice)>>
                ELSE <<>>)
            \o (IF "resources" \in DOMAIN medical_info
                THEN <<"  - Resources: "
                        \o join(", ", _decrypt_list(medical_info.resources))>>
                ELSE <<>>)
            \o (IF "steps" \in DOMAIN medical_info
                THEN <<"  - Important Steps:\n"
                        \o join("\n", Bullets("    * ", _decrypt_list(medical_info.steps)))>>
                ELSE <<>>)
    ELSE <<>>

\* the protocol _handle_emergency renders
Protocol(emergency_type) ==
    IF emergency_type \in DOMAIN safety_protocols
    THEN safety_protocols[emergency_type] ELSE safety_protocols.low

Closing == "\nI'm here with you. Please prioritize your safety and let me know when you're safe."

\* _handle_emergency: [raised, value]; decrypting a current issue that is
\* no token raises InvalidToken
_handle_emergency(emergency_type, user_context, chat_history) ==
    LET protocol == Protocol(emergency_type)
        last_user_input_decrypted ==
            IF chat_history # <<>>
            THEN _decrypt_data(chat_history[Len(chat_history)].content) ELSE ""
        current_issue ==
            IF user_context.current_situation # <<>>
            THEN user_context.current_situation[1]
            ELSE classify_issue_type(last_user_input_decrypted)
        current_issue_decrypted == _decrypt_data(current_issue)
        sections == IF current_issue_decrypted # "" /\ current_issue_decrypted # "general"
                    THEN LegalSection(current_issue_decrypted)
                            \o MedicalSection(current_issue_decrypted)
                    ELSE <<>>
    IN  IF (chat_history # <<>> /\ ~IsToken(chat_history[Len(chat_history)].content))
           \/ ~IsToken(current_issue)
        THEN [raised |-> "InvalidToken", value |-> ""]
        ELSE [raised |-> "",
              value |-> join("\n",
                  <<protocol.message, "\nIMMEDIATE ACTION REQUIRED:">>
                  \o Bullets("* ", protocol.actions)
                  \o sections
                  \o <<Closing>>)]

\* context_info of _get_system_prompt (the persona text and the clock
\* lines are left out)
_get_system_prompt(user_context) ==
    LET decrypted_name == IF user_context.name # <<>>
                          THEN _decrypt_data(user_context.name[1]) ELSE "there"
        decrypted_location == IF user_context.location # <<>>
                              THEN _decrypt_data(user_context.location[1]) ELSE "India"
        decrypted_previous_issues == _decrypt_list(user_context.previous_issues)
        decrypted_current_situation ==
            IF user_context.current_situation # <<>>
            THEN _decrypt_data(user_context.current_situation[1])
            ELSE "general conversation"
    IN  [role |-> "system",
         content |-> join("\n", <<
            "Current User Context:",
            "- User's Name: " \o decrypted_name,
            "- User's Location: " \o decrypted_location,
            "- Previous Issues Discussed: "
                \o (IF decrypted_previous_issues # <<>>
                    THEN join(", ", decrypted_previous_issues) ELSE "None"),
            "- Current Situation/Issue: " \o decrypted_current_situation,
            "- Detected Risk Level: " \o ToString(user_context.risk_level) \o "/10",
            "- User's Emotional State: " \o user_context.emotional_state,
            "- Preferred Language: " \o user_context.preferred_language>>)]

\* chat_history[-num_messages:] as it would be if the slice were left out
WholeList(s, n) == s

\* chat_history[-num_messages:]; s[-0:] is the whole list
LastN(s, n) == IF n = 0 \/ Len(s) <= n THEN s ELSE SubSeq(s, Len(s) - n + 1, Len(s))

\* _get_recent_chat_history as it would be with `break` for `continue`:
\* the entries before the first one that does not decrypt
_get_recent_chat_history_break(chat_history, num_messages) ==
    LET recent_history == LastN(chat_history, num_messages)
        unreadable == {i \in 1..Len(recent_history) : ~IsToken(recent_history[i].content)}
        stop == IF unreadable = {} THEN Len(recent_history) + 1
                ELSE CHOOSE i \in unreadable : \A j \in unreadable : i <= j
    IN  [i \in 1..(stop - 1) |->
            [role |-> recent_history[i].role,
             content |-> _decrypt_data(recent_history[i].content)]]

\* _get_recent_chat_history: an entry that does not decrypt is skipped
_get_recent_chat_history(chat_history, num_messages) ==
    LET recent_history == LastN(chat_history, num_messages)
        Decrypts(msg) == IsToken(msg.content)
        readable == SelectSeq(recent_history, Decrypts)
    IN  [i \in 1..Len(readable) |->
            [role |-> readable[i].role, content |-> _decrypt_data(readable[i].content)]]

\* num_messages=7 of _generate_ai_response
HistoryWindow == 7

\* the messages _generate_ai_response sends
BackendMessages(user_context, chat_history, user_input) ==
    <<_get_system_prompt(user_context)>>
    \o _get_recent_chat_history(chat_history, HistoryWindow)
    \o <<[role |-> "user", content |-> user_input]>>

(***************************************************************************)
(* The backend and process_message                                         *)
(***************************************************************************)

\* the exception classes process_message names in its first handler
ApiErrors == {"AuthenticationError", "APIConnectionError", "RateLimitError", "APIError"}

\* what client.chat.completions.create does with one request: it returns
\* a completion, raises one of the API errors, or raises something else
BackendOutcomes == {"ok"} \cup ApiErrors \cup {"Exception"}

\* response.choices[0].message.content of a completion
BackendContent == "I hear you. Tell me more about it.\n"

\* _generate_ai_response: [raised, value]; an API error is raised again
\* as its own class, anything else as RuntimeError
_generate_ai_response(backend) ==
    IF backend = "ok" THEN [raised |-> "", value |-> strip(BackendContent)]
    ELSE IF backend \in ApiErrors THEN [raised |-> backend, value |-> ""]
    ELSE [raised |-> "RuntimeError", value |-> ""]

HelplineLines ==
    "* Women's Helpline (All India): 1091\n"
    \o "* Police Emergency: 100\n"
    \o "* All-in-one Emergency: 112\n\n"

\* ApiErrorMsg as it would be without the helpline lines
ApiErrorMsgNoHelplines(type_name) ==
    "I'm experiencing an issue connecting to my AI brain (" \o type_name
    \o "). Could you please try again in a moment?"

\* error_msg of the first handler of process_message
ApiErrorMsg(type_name) ==
    "I'm experiencing an issue connecting to my AI brain (" \o type_name
    \o "). For immediate help:\n" \o HelplineLines
    \o "Could you please try again in a moment?"

\* error_msg of the second handler of process_message
GeneralErrorMsg(type_name) ==
    "I'm having some technical difficulties: " \o type_name
    \o ". For immediate help:\n" \o HelplineLines
    \o "Could you please repeat your question?"

\* the handler that catches an exception of this class
ErrorMsg(type_name) ==
    IF type_name \in ApiErrors THEN ApiErrorMsg(type_name)
    ELSE GeneralErrorMsg(type_name)

\* the entries process_message appends
UserTurn(user_input) == [role |-> "user", content |-> _encrypt_data(user_input)]
AssistantTurn(response) == [role |-> "assistant", content |-> _encrypt_data(response)]

\* ErrorTurn as it would be if the handlers stored error_msg as it is
ErrorTurnPlain(error_msg) == [role |-> "assistant", content |-> error_msg]

ErrorTurn(error_msg) == [role |-> "assistant", content |-> _encrypt_data(error_msg)]

\* IsEmergencyPath with another threshold: 10, above 5, none
EmergencyOnlyAtCritical(is_emergency, risk_level) == is_emergency /\ risk_level >= 10
EmergencyAboveMedium(is_emergency, risk_level) == is_emergency /\ risk_level > 5
EmergencyAtAnyRisk(is_emergency, risk_level) == is_emergency \/ risk_level >= 0

\* `if is_emergency and risk_level >= 5` of process_message
IsEmergencyPath(is_emergency, risk_level) == is_emergency /\ risk_level >= 5

\* what the two except clauses of process_message leave behind
Failed(user_context, chat_history, type_name, trace) ==
    [trace EXCEPT
        !.user_context = user_context,
        !.chat_history = Append(chat_history, ErrorTurn(ErrorMsg(type_name))),
        !.response = ErrorMsg(type_name),
        !.error = type_name]

\* what one call leaves to tell: the classification, the path taken and
\* the request sent to the backend
NoTrace ==
    [user_context |-> InitialUserContext, chat_history |-> <<>>, response |-> "",
     error |-> "", is_emergency |-> FALSE, emergency_type |-> "none",
     risk_level |-> 0, issue |-> "none", path |-> "none",
     backend_called |-> FALSE, messages |-> <<>>]

\* lines 286-287: the risk level of the message is stored
WithRisk(user_context, detected) ==
    [user_context EXCEPT !.risk_level = detected.risk_level]

\* the classification of one call, the path it took and the request it
\* sent to the backend
Trace(detected, issue, path, backend_called, messages) ==
    [NoTrace EXCEPT
        !.is_emergency = detected.is_emergency,
        !.emergency_type = detected.emergency_type,
        !.risk_level = detected.risk_level,
        !.issue = issue,
        !.path = path,
        !.backend_called = backend_called,
        !.messages = messages]

\* lines 300-306 when the response was produced, the except clauses when
\* producing it raised
Finish(produced, user_context, chat_history, trace) ==
    IF produced.raised # ""
    THEN Failed(user_context, chat_history, produced.raised, trace)
    ELSE [trace EXCEPT
            !.user_context = user_context,
            !.chat_history = Append(chat_history, AssistantTurn(produced.value)),
            !.response = produced.value]

\* lines 295-298, the user's turn being appended
Dispatch(detected, user_context, chat_history, user_input, backend) ==
    IF IsEmergencyPath(detected.is_emergency, detected.risk_level)
    THEN Finish(_handle_emergency(detected.emergency_type, user_context, chat_history),
                user_context, chat_history,
                Trace(detected, TextRead[user_input].issue_type, "canned", FALSE, <<>>))
    ELSE Finish(_generate_ai_response(backend),
                user_context, chat_history,
                Trace(detected, TextRead[user_input].issue_type, "generate", TRUE,
                      BackendMessages(user_context, chat_history, user_input)))

\* lines 286-298, the context being updated
Classify(user_context, chat_history, user_input, backend) ==
    Dispatch(detect_emergency(user_input, user_context),
             WithRisk(user_context, detect_emergency(user_input, user_context)),
             Append(chat_history, UserTurn(user_input)),
             user_input, backend)

\* process_message(user_input) on an object with these fields, the backend
\* answering as `backend` when it is called.  user_input is the JSON value
\* of the request: .lower() of a value that is no str raises
\* AttributeError in _update_user_context.
process_message(user_context, chat_history, user_input, backend) ==
    IF user_input.kind # "str"
    THEN Failed(user_context, chat_history, "AttributeError", NoTrace)
    ELSE Classify(_update_user_context(user_context, user_input.text),
                  chat_history, user_input.text, backend)

(***************************************************************************)
(* The service: one object for every client, POST /chat                    *)
(***************************************************************************)

Clients == {"c1", "c2"}

Str(t) == [kind |-> "str", text |-> t]

\* the JSON values a request can carry as its message: strings, the
\* empty one too, a number, and no message at all
Inputs == {Str(m) : m \in Messages \cup {""}}
            \cup {[kind |-> "int", text |-> "5"], [kind |-> "null", text |-> ""]}

\* Python truth of a JSON value
Truthy(v) == v.kind = "int" \/ (v.kind = "str" /\ v.text # "")

VARIABLES
    assistant,      \* "ready", or "None" when the constructor raised
    user_context,   \* assistant.user_context
    chat_history,   \* assistant.chat_history
    last,           \* the last request and how it was answered
    saved,          \* what save_conversation wrote last, <<>> before
    pending,        \* per client: the request a thread is in the middle of
    returned        \* the last call of a method made on the object itself

vars == <<assistant, user_context, chat_history, last, saved, pending, returned>>

NoRequest ==
    [client |-> "none", input |-> [kind |-> "null", text |-> ""], status |-> 0,
     body |-> "none", text |-> "", called |-> FALSE, trace |-> NoTrace]

\* no thread is inside process_message
NoPending == [c \in Clients |-> <<>>]

\* no method has been called on the object itself
NoCall ==
    [method |-> "none", args |-> <<>>, before |-> <<>>, raised |-> "",
     value |-> <<>>, sent |-> <<>>]

Init ==
    /\ assistant \in {"ready", "None"}
    /\ user_context = InitialUserContext
    /\ chat_history = <<>>
    /\ last = NoRequest
    /\ saved = <<>>
    /\ pending = NoPending
    /\ returned = NoCall

\* chat() as it would answer without its `if not assistant`: calling
\* process_message on None raises inside the try, and the except clause
\* answers
ChatNotInitializedUnchecked(c, v) ==
    /\ assistant = "None"
    /\ last' = [NoRequest EXCEPT !.client = c, !.input = v, !.status = 500,
                    !.body = "error", !.text = "An internal error occurred."]
    /\ UNCHANGED <<assistant, user_context, chat_history, saved, pending, returned>>

\* chat(): `if not assistant`
ChatNotInitialized(c, v) ==
    /\ assistant = "None"
    /\ last' = [NoRequest EXCEPT !.client = c, !.input = v, !.status = 500,
                    !.body = "error",
                    !.text = "Chatbot is not initialized. Please check the server logs."]
    /\ UNCHANGED <<assistant, user_context, chat_history, saved, pending, returned>>

\* chat(): `if not user_input`
ChatNoMessage(c, v) ==
    /\ assistant = "ready"
    /\ ~Truthy(v)
    /\ last' = [NoRequest EXCEPT !.client = c, !.input = v, !.status = 400,
                    !.body = "error", !.text = "No message provided"]
    /\ UNCHANGED <<assistant, user_context, chat_history, saved, pending, returned>>

\* chat(): the reply of assistant.process_message.  process_message
\* catches every exception, so the handler's own except clause is dead.
ChatReply(c, v, backend) ==
    /\ assistant = "ready"
    /\ Truthy(v)
    /\ Len(chat_history) < MaxHistory
    /\ LET done == process_message(user_context, chat_history, v, backend)
       IN /\ Len(done.chat_history) <= MaxHistory
          /\ user_context' = done.user_context
          /\ chat_history' = done.chat_history
          /\ last' = [client |-> c, input |-> v, status |-> 200, body |-> "reply",
                      text |-> done.response, called |-> TRUE,
                      trace |-> [done EXCEPT !.user_context = InitialUserContext,
                                             !.chat_history = <<>>]]
    /\ UNCHANGED <<assistant, saved, pending, returned>>

\* the user_context part of save_conversation: every listed field that is
\* not None is encrypted (again), risk_level is copied
encrypted_user_context_for_save(context) ==
    [name |-> IF context.name # <<>> THEN <<_encrypt_data(context.name[1])>> ELSE <<>>,
     location |-> IF context.location # <<>>
                  THEN <<_encrypt_data(context.location[1])>> ELSE <<>>,
     emergency_contacts |-> _encrypt_list(context.emergency_contacts),
     previous_issues |-> _encrypt_list(context.previous_issues),
     current_situation |-> IF context.current_situation # <<>>
                           THEN <<_encrypt_data(context.current_situation[1])>>
                           ELSE <<>>,
     medical_history |-> _encrypt_list(context.medical_history),
     preferred_language |-> _encrypt_data(context.preferred_language),
     risk_level |-> context.risk_level,
     emotional_state |-> _encrypt_data(context.emotional_state)]

\* the data save_conversation dumps
SavedData(context, history) ==
    [metadata |->
        [risk_level_at_exit |-> context.risk_level,
         issues_discussed_at_exit |-> _decrypt_list(context.previous_issues)],
     chat_history |-> history,
     user_context |-> encrypted_user_context_for_save(context)]

\* save_conversation: the file holds the data, unless writing it failed
\* (the IOError is caught and nothing is written)
SaveConversation ==
    /\ assistant = "ready"
    /\ saved' = <<SavedData(user_context, chat_history)>>
    /\ saved' # saved
    /\ UNCHANGED <<assistant, user_context, chat_history, last, pending, returned>>

Next ==
    \/ \E c \in Clients, v \in Inputs : ChatNotInitialized(c, v)
    \/ \E c \in Clients, v \in Inputs : ChatNoMessage(c, v)
    \/ \E c \in Clients, v \in Inputs, backend \in BackendOutcomes : ChatReply(c, v, backend)

\* the service as app.py runs it: nothing there calls save_conversation
Spec == Init /\ [][Next]_vars

\* the object with all its public methods in use
NextWithSave ==
    \/ \E c \in Clients, v \in Inputs : ChatNotInitialized(c, v)
    \/ \E c \in Clients, v \in Inputs : ChatNoMessage(c, v)
    \/ \E c \in Clients, v \in Inputs, backend \in BackendOutcomes : ChatReply(c, v, backend)
    \/ SaveConversation

SpecWithSave == Init /\ [][NextWithSave]_vars

(***************************************************************************)
(* The service under app.run: the server answers each request in a thread  *)
(* of its own, and neither chat() nor process_message takes a lock.  A     *)
(* thread can be suspended between any two statements.  process_message   *)
(* is cut into six segments, each of them atomic here; a thread runs one   *)
(* or more segments in a step:                                             *)
(*   1  line 472: name is tested and the text searched                     *)
(*   2  lines 475-478: name is assigned; location is tested and searched   *)
(*   3  lines 480-489: location is assigned; previous_issues is read and   *)
(*      the new list made                                                  *)
(*   4  lines 490-514: previous_issues, current_situation, emotional_state *)
(*      and preferred_language are assigned                                *)
(*   5  lines 286-293: the message is classified, risk_level assigned and  *)
(*      the user's entry appended                                          *)
(*   6  lines 295-306 and the except clauses: the reply                    *)
(***************************************************************************)

\* the threads that are inside process_message
Running == {c \in Clients : pending[c] # <<>>}

\* the local variables of _update_user_context: what the thread is about
\* to assign, <<>> for no assignment
NoLocals == [name |-> <<>>, location |-> <<>>, issues |-> <<>>]

\* segment k of process_message(user_input) run by a thread on the object
\* as it is now: the fields after it and the thread's local variables
Segment(k, st, user_input) ==
    LET read == TextRead[user_input]
        context == st.user_context
        local == st.local
    IN  IF k = 1
        THEN [st EXCEPT !.local.name = IF context.name = <<>> THEN read.name ELSE <<>>]
        ELSE IF k = 2
        THEN [st EXCEPT
                !.user_context.name = IF local.name # <<>> THEN local.name ELSE @,
                !.local.location =
                    IF context.location = <<>> THEN read.location ELSE <<>>]
        ELSE IF k = 3
        THEN [st EXCEPT
                !.user_context.location =
                    IF local.location # <<>> THEN local.location ELSE @,
                !.local.issues =
                    IF PreviousIssues(read.issue_type, context.previous_issues)
                            # context.previous_issues
                    THEN <<PreviousIssues(read.issue_type, context.previous_issues)>>
                    ELSE <<>>]
        ELSE IF k = 4
        THEN [st EXCEPT
                !.user_context.previous_issues =
                    IF local.issues # <<>> THEN local.issues[1] ELSE @,
                !.user_context.current_situation = <<_encrypt_data(read.issue_type)>>,
                !.user_context.emotional_state =
                    IF read.emotional_state # "" THEN read.emotional_state ELSE @,
                !.user_context.preferred_language =
                    IF read.preferred_language # "" THEN read.preferred_language ELSE @]
        ELSE [st EXCEPT
                !.user_context = WithRisk(context, detect_emergency(user_input, context)),
                !.chat_history = Append(@, UserTurn(user_input)),
                !.detected = detect_emergency(user_input, context)]

\* the segments after `from`, up to and including `to`
RECURSIVE RunSegments(_, _, _, _)
RunSegments(st, from, to, user_input) ==
    IF from >= to THEN st
    ELSE RunSegments(Segment(from + 1, st, user_input), from + 1, to, user_input)

\* the entries the running threads have still to append
StillToAppend ==
    LET Owed(c) == IF pending[c] = <<>> THEN 0
                   ELSE IF pending[c][1].pc = 5 THEN 1 ELSE 2
    IN  Owed("c1") + Owed("c2")

\* a thread that has run the segments up to pc
Suspended(v, pc, st) ==
    <<[input |-> v, pc |-> pc, local |-> st.local, detected |-> st.detected]>>

\* the thread's view when it enters process_message
Entering ==
    [user_context |-> user_context, chat_history |-> chat_history,
     local |-> NoLocals,
     detected |-> [is_emergency |-> FALSE, emergency_type |-> "low", risk_level |-> 0]]

\* process_message, lines 284-293, without a suspension: the context is
\* updated, the message classified, the risk level stored and the user's
\* entry appended; the thread then waits for the reply to be made
ChatBegin(c, v) ==
    /\ assistant = "ready"
    /\ Truthy(v)
    /\ v.kind = "str"
    /\ pending[c] = <<>>
    /\ Len(chat_history) + StillToAppend + 2 <= MaxHistory
    /\ LET st == RunSegments(Entering, 0, 5, v.text)
       IN /\ user_context' = st.user_context
          /\ chat_history' = st.chat_history
          /\ pending' = [pending EXCEPT ![c] = Suspended(v, 5, st)]
    /\ UNCHANGED <<assistant, last, saved, returned>>

\* a thread enters process_message and is suspended inside
\* _update_user_context, or right after it
ChatEnter(c, v, stop) ==
    /\ assistant = "ready"
    /\ Truthy(v)
    /\ v.kind = "str"
    /\ pending[c] = <<>>
    /\ Len(chat_history) + StillToAppend + 2 <= MaxHistory
    /\ LET st == RunSegments(Entering, 0, stop, v.text)
       IN /\ user_context' = st.user_context
          /\ chat_history' = st.chat_history
          /\ pending' = [pending EXCEPT ![c] = Suspended(v, stop, st)]
    /\ UNCHANGED <<assistant, last, saved, returned>>

\* a suspended thread runs on, up to the segment it is suspended after
\* next
ChatResume(c, stop) ==
    /\ pending[c] # <<>>
    /\ pending[c][1].pc < stop
    /\ LET st == RunSegments(
                    [user_context |-> user_context, chat_history |-> chat_history,
                     local |-> pending[c][1].local,
                     detected |-> pending[c][1].detected],
                    pending[c][1].pc, stop, pending[c][1].input.text)
       IN /\ user_context' = st.user_context
          /\ chat_history' = st.chat_history
          /\ pending' = [pending EXCEPT ![c] = Suspended(pending[c][1].input, stop, st)]
    /\ UNCHANGED <<assistant, last, saved, returned>>

\* process_message, lines 295-306 and the except clauses: the reply is
\* produced from the object as it is now and appended; chat() returns it
ChatEnd(c, backend) ==
    /\ pending[c] # <<>>
    /\ pending[c][1].pc = 5
    /\ LET done == Dispatch(pending[c][1].detected, user_context, chat_history,
                            pending[c][1].input.text, backend)
       IN /\ chat_history' = done.chat_history
          /\ last' = [client |-> c, input |-> pending[c][1].input, status |-> 200,
                      body |-> "reply", text |-> done.response, called |-> TRUE,
                      trace |-> [done EXCEPT !.user_context = InitialUserContext,
                                             !.chat_history = <<>>]]
    /\ pending' = [pending EXCEPT ![c] = <<>>]
    /\ UNCHANGED <<assistant, user_context, saved, returned>>

NextThreads ==
    \/ \E c \in Clients, v \in Inputs : ChatNotInitialized(c, v)
    \/ \E c \in Clients, v \in Inputs : ChatNoMessage(c, v)
    \/ \E c \in Clients, v \in Inputs : ChatBegin(c, v)
    \/ \E c \in Clients, v \in Inputs, stop \in 1..4 : ChatEnter(c, v, stop)
    \/ \E c \in Clients, stop \in 2..5 : ChatResume(c, stop)
    \/ \E c \in Clients, backend \in BackendOutcomes : ChatEnd(c, backend)

SpecThreads == Init /\ [][NextThreads]_vars

(***************************************************************************)
(* The methods called on an object with a long history                     *)
(***************************************************************************)

\* The number of entries a stored history holds at most.
MaxStored == 9

\* the i-th entry of a history: as process_message appended it, or with
\* its ciphertext damaged since
StoredTurn(i, sound) ==
    [role |-> IF i % 2 = 1 THEN "user" ELSE "assistant",
     content |-> IF sound THEN _encrypt_data("turn " \o ToString(i))
                 ELSE "damaged " \o ToString(i)]

StoredHistories ==
    UNION {{[i \in 1..n |-> StoredTurn(i, i \notin damaged)] :
                damaged \in SUBSET (1..n)} : n \in 0..MaxStored}

InitHistory ==
    /\ assistant = "ready"
    /\ user_context = InitialUserContext
    /\ chat_history \in StoredHistories
    /\ last = NoRequest
    /\ saved = <<>>
    /\ pending = NoPending
    /\ returned = NoCall

\* self._get_recent_chat_history(num_messages=7): the except clause in
\* the loop catches every Exception, so the call raises nothing
GetRecentChatHistory ==
    /\ returned' = [NoCall EXCEPT
            !.method = "_get_recent_chat_history",
            !.args = <<HistoryWindow>>,
            !.before = chat_history,
            !.value = _get_recent_chat_history(chat_history, HistoryWindow)]
    /\ UNCHANGED <<assistant, user_context, chat_history, last, saved, pending>>

\* self._generate_ai_response(user_input)
GenerateAiResponse(user_input, backend) ==
    /\ returned' = [NoCall EXCEPT
            !.method = "_generate_ai_response",
            !.args = <<user_input>>,
            !.before = chat_history,
            !.raised = _generate_ai_response(backend).raised,
            !.value = <<_generate_ai_response(backend).value>>,
            !.sent = BackendMessages(user_context, chat_history, user_input)]
    /\ UNCHANGED <<assistant, user_context, chat_history, last, saved, pending>>

\* the texts _generate_ai_response is called with
ReplayTexts == {"hi", "i want a divorce"}

NextHistory ==
    \/ GetRecentChatHistory
    \/ \E user_input \in ReplayTexts, backend \in BackendOutcomes :
            GenerateAiResponse(user_input, backend)

SpecHistory == InitHistory /\ [][NextHistory]_vars

(***************************************************************************)
(* _encrypt_data and _decrypt_data called on values of the two kinds the   *)
(* program passes: a str, and a list of str                                *)
(***************************************************************************)

\* The number of items a list holds at most.
MaxList == 3

StrValue(text) == [kind |-> "str", text |-> text, items |-> <<>>]
ListValue(items) == [kind |-> "list", text |-> "", items |-> items]

\* texts, a name, the empty and the blank string, and a string that is
\* a token already (save_conversation encrypts stored fields again)
PlainStrings ==
    {"", " ", "hi", "Priya", " i want a divorce\n", _encrypt_data("general")}

PlainItems == {"", "sexual_assault", "mental_health", _encrypt_data("general")}

PlainValues ==
    {StrValue(t) : t \in PlainStrings}
        \cup UNION {{ListValue(l) : l \in [1..n -> PlainItems]} : n \in 0..MaxList}

\* `if isinstance(data, list)` of _encrypt_data and of _decrypt_data
EncryptValue(data) ==
    IF data.kind = "list" THEN ListValue(_encrypt_list(data.items))
    ELSE StrValue(_encrypt_data(data.text))

DecryptValue(encrypted_data) ==
    IF encrypted_data.kind = "list" THEN ListValue(_decrypt_list(encrypted_data.items))
    ELSE StrValue(_decrypt_data(encrypted_data.text))

\* a constructed object that has processed nothing yet
InitObject ==
    /\ assistant = "ready"
    /\ user_context = InitialUserContext
    /\ chat_history = <<>>
    /\ last = NoRequest
    /\ saved = <<>>
    /\ pending = NoPending
    /\ returned = NoCall

\* self._encrypt_data(data)
EncryptData(data) ==
    /\ returned' = [NoCall EXCEPT
            !.method = "_encrypt_data",
            !.args = <<data>>,
            !.value = <<EncryptValue(data)>>]
    /\ UNCHANGED <<assistant, user_context, chat_history, last, saved, pending>>

\* self._decrypt_data(x) of the x that _encrypt_data returned last;
\* `before` keeps what had been encrypted
DecryptData ==
    /\ returned.method = "_encrypt_data"
    /\ returned' = [NoCall EXCEPT
            !.method = "_decrypt_data",
            !.args = returned.value,
            !.before = returned.args,
            !.value = <<DecryptValue(returned.value[1])>>]
    /\ UNCHANGED <<assistant, user_context, chat_history, last, saved, pending>>

NextCipher ==
    \/ \E data \in PlainValues : EncryptData(data)
    \/ DecryptData

SpecCipher == InitObject /\ [][NextCipher]_vars

(***************************************************************************)
(* _update_user_context called on the object, message after message       *)
(***************************************************************************)

\* self._update_user_context(user_input); `before` keeps the text of the
\* call before this one and the language this call found
UpdateUserContext(user_input) ==
    /\ user_context' = _update_user_context(user_context, user_input)
    /\ returned' = [NoCall EXCEPT
            !.method = "_update_user_context",
            !.args = <<user_input>>,
            !.before = <<[args |-> returned.args,
                          preferred_language |-> user_context.preferred_language]>>]
    /\ UNCHANGED <<assistant, chat_history, last, saved, pending>>

NextContext == \E user_input \in Messages : UpdateUserContext(user_input)

SpecContext == InitObject /\ [][NextContext]_vars

(***************************************************************************)
(* Properties                                                              *)
(***************************************************************************)

\* the last request was a text that process_message classified
Classified == last.called /\ last.input.kind = "str"

Tier == last.trace.emergency_type

\* the backend was called for the last request and the call failed
BackendFailed == last.called /\ last.trace.backend_called /\ last.trace.error # ""

\* how the canned reply of a tier begins: its message and all its actions
ProtocolHead(tier) ==
    join("\n", <<safety_protocols[tier].message, "\nIMMEDIATE ACTION REQUIRED:">>
               \o Bullets("* ", safety_protocols[tier].actions))

\* the last reply is the canned safety protocol of this tier
CannedReplyOf(tier) ==
    /\ last.status = 200
    /\ last.body = "reply"
    /\ last.trace.error = ""
    /\ StartsWith(last.text, ProtocolHead(tier))

\* the messages that hold a critical phrase of some keyword table
CriticalTexts ==
    {t \in Messages :
        \E l \in DOMAIN emergency_keywords :
            AnyIn(emergency_keywords[l].critical, lower(t))}

\* C1: every message that contains a critical keyword of the keyword
\* tables is classified critical with risk 10, in every session state and
\* whatever else the text contains.
C1_CriticalKeywordIsCritical ==
    (Classified /\ last.input.text \in CriticalTexts)
        => /\ last.trace.is_emergency
           /\ Tier = "critical"
           /\ last.trace.risk_level = 10
           /\ user_context.risk_level = 10

\* C2: the message "he is trying to kill me", processed in an English
\* session, is classified critical and answered with the critical canned
\* protocol, which names the emergency number 112.
C2_KillMeIsCritical ==
    (Classified /\ last.input.text = "he is trying to kill me"
        /\ user_context.preferred_language = "english")
        => /\ Tier = "critical"
           /\ CannedReplyOf("critical")
           /\ Contains(last.text, "112")

\* C3: a message classified high or critical is answered with the canned
\* safety protocol of exactly that tier, and the backend is not called for
\* it: no request is built and none is sent.
C3_HighAndCriticalAreCanned ==
    (Classified /\ Tier \in {"high", "critical"})
        => /\ last.trace.path = "canned"
           /\ ~last.trace.backend_called
           /\ last.trace.messages = <<>>
           /\ CannedReplyOf(Tier)

C3_Witness ==
    /\ Classified
    /\ Tier = "critical"
    /\ last.trace.path = "canned"
    /\ Len(chat_history) = 4

\* the categories that have a legal resource bundle
LegalCategories == DOMAIN legal_resources

\* C4 as claimed: a message of tier low whose category is a legal one is
\* answered with a canned protocol and never through the backend.
C4_LowLegalIsCanned ==
    (Classified /\ Tier = "low" /\ last.trace.issue \in LegalCategories)
        => /\ last.trace.path = "canned"
           /\ ~last.trace.backend_called

\* C4 as amended: a message of tier low is answered through the Generate
\* path whatever its category, the legal ones included: the backend is
\* called with the message, and the reply is the backend's text or, when
\* the call failed, the handler's fallback; it is never a canned protocol.
C4_LowIsGenerated ==
    (Classified /\ Tier = "low")
        => /\ last.trace.path = "generate"
           /\ last.trace.backend_called
           /\ last.trace.messages # <<>>
           /\ last.trace.messages[Len(last.trace.messages)]
                = [role |-> "user", content |-> last.input.text]
           /\ (last.trace.error = "" => last.text = strip(BackendContent))
           /\ (last.trace.error # "" => last.text = ErrorMsg(last.trace.error))
           /\ \A tier \in DOMAIN safety_protocols :
                ~StartsWith(last.text, safety_protocols[tier].message)

C4_Witness ==
    /\ Classified
    /\ Tier = "low"
    /\ last.trace.issue \in LegalCategories
    /\ last.trace.path = "generate"
    /\ last.trace.error = ""

\* C5 as claimed: a message with a medium lexical hit whose category is
\* not a legal one is answered through the Generate path.
C5_MediumIsGenerated ==
    (Classified /\ Tier = "medium" /\ last.trace.issue \notin LegalCategories)
        => /\ last.trace.path = "generate"
           /\ last.trace.backend_called

\* C5 as amended: a message with a medium lexical hit (risk 5) is answered
\* with the canned medium safety protocol, whatever its category, and the
\* backend is not called for it.
C5_MediumIsCanned ==
    (Classified /\ Tier = "medium")
        => /\ last.trace.risk_level = 5
           /\ last.trace.path = "canned"
           /\ ~last.trace.backend_called
           /\ CannedReplyOf("medium")

C5_Witness ==
    /\ Classified
    /\ last.input.text = "mujhe bahut tension hai"
    /\ user_context.preferred_language = "hindi"
    /\ Tier = "medium"
    /\ last.trace.issue \notin LegalCategories

\* C6: when the backend call of a message fails, whatever the failure,
\* the request is answered with a reply (process_message raised nothing)
\* that is not empty and names the helplines 1091, 100 and 112.
C6_FailureGivesHelplines ==
    BackendFailed
        => /\ last.status = 200
           /\ last.body = "reply"
           /\ last.text # ""
           /\ Contains(last.text, "1091")
           /\ Contains(last.text, "Police Emergency: 100\n")
           /\ Contains(last.text, "112")

C6_Witness ==
    /\ BackendFailed
    /\ last.trace.error = "RateLimitError"
    /\ last.status = 200

\* the class names an exception of process_message can carry
ExceptionNames == ApiErrors \cup {"RuntimeError", "AttributeError", "InvalidToken"}

\* C7: the reply after a backend failure is one fixed text, the same for
\* every kind of failure, and names no exception class.
C7_OneFixedFallback ==
    BackendFailed
        => /\ \A k \in ApiErrors \cup {"RuntimeError"} : last.text = ErrorMsg(k)
           /\ \A k \in ExceptionNames : ~Contains(last.text, k)

\* the object whose user_context and chat_history answer the requests of
\* client c: `assistant`, for every client
SessionOf(c) == [user_context |-> user_context, chat_history |-> chat_history]

\* C8: a request of one client leaves the profile and the history that
\* answer every other client's requests as they were.
C8_SessionsAreIsolated ==
    [][\A c \in Clients : last'.client # c => SessionOf(c)' = SessionOf(c)]_vars

\* C9: the content of every entry of chat_history is ciphertext, after
\* canned, generated and failed calls alike.
C9_HistoryIsCiphertext ==
    \A i \in DOMAIN chat_history : IsToken(chat_history[i].content)

C9_Witness ==
    /\ Len(chat_history) = 4
    /\ BackendFailed
    /\ \E i \in DOMAIN chat_history :
            chat_history[i].content = _encrypt_data(strip(BackendContent))
    /\ C9_HistoryIsCiphertext

\* every string of a saved user_context field
SavedFieldValues(context) ==
    Range(context.name) \cup Range(context.location)
        \cup Range(context.previous_issues) \cup Range(context.current_situation)
        \cup Range(context.emergency_contacts) \cup Range(context.medical_history)

\* C10: what save_conversation writes holds the sensitive profile values
\* and the turn contents as ciphertext only, the metadata included.
C10_SavedDataIsCiphertext ==
    saved # <<>> =>
        /\ \A value \in SavedFieldValues(saved[1].user_context) : IsToken(value)
        /\ \A i \in DOMAIN saved[1].chat_history :
                IsToken(saved[1].chat_history[i].content)
        /\ \A value \in Range(saved[1].metadata.issues_discussed_at_exit) :
                IsToken(value)

\* no entry of the stored history is damaged
Sound == \A i \in DOMAIN chat_history : chat_history[i] = StoredTurn(i, TRUE)

\* the i-th stored entry as it is replayed
Replayed(i) ==
    [role |-> IF i % 2 = 1 THEN "user" ELSE "assistant",
     content |-> "turn " \o ToString(i)]

\* C11: with n stored entries, none damaged, _get_recent_chat_history(7)
\* returns exactly min(n, 7) entries, decrypted: the last ones, in stored
\* order; and the request _generate_ai_response builds holds just these
\* between the system prompt and the user's message.  Damaged or not, no
\* more than 7 entries are replayed.
C11_ReplayIsTheLastSeven ==
    LET n == Len(chat_history)
        k == IF n < 7 THEN n ELSE 7
    IN  /\ returned.method = "_get_recent_chat_history" =>
            /\ Len(returned.value) <= 7
            /\ Sound =>
                /\ Len(returned.value) = k
                /\ \A j \in 1..k : returned.value[j] = Replayed(n - k + j)
        /\ returned.method = "_generate_ai_response" =>
            /\ Len(returned.sent) <= 7 + 2
            /\ returned.sent[1].role = "system"
            /\ returned.sent[Len(returned.sent)]
                    = [role |-> "user", content |-> returned.args[1]]
            /\ Sound =>
                /\ Len(returned.sent) = k + 2
                /\ \A j \in 1..k : returned.sent[j + 1] = Replayed(n - k + j)

C11_Witness ==
    /\ Len(chat_history) = 9
    /\ Sound
    /\ returned.method = "_get_recent_chat_history"
    /\ Len(returned.value) = 7
    /\ returned.value[1] = Replayed(3)

\* the entries of the replay window that are not damaged
ReadableInWindow ==
    {i \in DOMAIN chat_history :
        /\ i > Len(chat_history) - 7
        /\ chat_history[i] = StoredTurn(i, TRUE)}

\* C12: when entries of the replay window are damaged,
\* _get_recent_chat_history raises nothing and returns exactly the other
\* entries of the window, decrypted, in their stored order; the stored
\* history is as it was before the call.
C12_DamagedTurnsAreSkipped ==
    returned.method = "_get_recent_chat_history" =>
        /\ returned.raised = ""
        /\ Len(returned.value) = Cardinality(ReadableInWindow)
        /\ \A i \in ReadableInWindow :
                returned.value[Cardinality({j \in ReadableInWindow : j <= i})]
                    = Replayed(i)
        /\ chat_history = returned.before

C12_Witness ==
    /\ Len(chat_history) = 9
    /\ chat_history[2] = StoredTurn(2, FALSE)
    /\ chat_history[5] = StoredTurn(5, FALSE)
    /\ chat_history[9] = StoredTurn(9, FALSE)
    /\ ReadableInWindow = {3, 4, 6, 7, 8}
    /\ returned.method = "_get_recent_chat_history"
    /\ Len(returned.value) = 5

C14_WholeTurnsAppended ==
    [][chat_history' # chat_history =>
        LET n == Len(chat_history)
        IN  /\ Len(chat_history') = n + 2
            /\ SubSeq(chat_history', 1, n) = chat_history
            /\ chat_history'[n + 1].role = "user"
            /\ chat_history'[n + 2].role = "assistant"
            /\ \A i \in DOMAIN chat_history' :
                    chat_history'[i].role
                        = IF i % 2 = 1 THEN "user" ELSE "assistant"]_vars

\* C15: between the append of the user entry of one request and the
\* append of the assistant entry of that request, no other request appends
\* to chat_history or changes user_context.
C15_RequestsAreNotInterleaved ==
    [][\A c \in Clients :
        (pending[c] # <<>> /\ pending[c][1].pc = 5 /\ pending'[c] = pending[c])
            => /\ chat_history' = chat_history
               /\ user_context' = user_context]_vars

\* the message is a string that is empty or holds white space only
Blank(v) == v.kind = "str" /\ strip(v.text) = ""

\* C16: an empty or white-space-only message is answered, by the
\* initialised service, with a reply and not with an error, and without
\* process_message being run: user_context and chat_history stay as they
\* are.
C16_BlankMessageIsBenign ==
    [][(assistant = "ready" /\ Blank(last'.input))
        => /\ last'.status = 200
           /\ last'.body = "reply"
           /\ ~last'.called
           /\ user_context' = user_context
           /\ chat_history' = chat_history]_vars

\* C17: when the construction of the assistant failed, every chat request
\* is answered with the error that the chatbot is not initialised (status
\* 500): process_message is not called, no profile and no history come
\* into being, and the service stays as it is.
C17_UninitialisedIsUnavailable ==
    [][assistant = "None"
        => /\ last'.status = 500
           /\ last'.body = "error"
           /\ last'.text = "Chatbot is not initialized. Please check the server logs."
           /\ ~last'.called
           /\ assistant' = "None"
           /\ user_context' = InitialUserContext
           /\ chat_history' = <<>>
           /\ saved' = <<>>]_vars

C17_Witness ==
    /\ assistant = "None"
    /\ last.client = "c2"
    /\ last.input = Str("he raped me, help me, i am scared")
    /\ last.status = 500
    /\ chat_history = <<>>

\* what detect_emergency returns for the text in a session that has
\* processed nothing before
InFreshSession(user_input) ==
    detect_emergency(user_input, _update_user_context(InitialUserContext, user_input))

\* C18: detect_emergency returns the same (flag, tier, score) for a text
\* in any two sessions, whatever the sessions processed before: in every
\* session it is what a fresh session returns for the text.
C18_ClassificationIsSessionIndependent ==
    Classified =>
        /\ last.trace.is_emergency = InFreshSession(last.input.text).is_emergency
        /\ last.trace.emergency_type = InFreshSession(last.input.text).emergency_type
        /\ last.trace.risk_level = InFreshSession(last.input.text).risk_level

\* C19: when _update_user_context is applied to the same text twice in a
\* row, preferred_language is after the second application what it was
\* after the first, whatever the session had processed before.
C19_LanguageUpdateIsIdempotent ==
    (/\ returned.method = "_update_user_context"
     /\ returned.before[1].args = returned.args)
        => user_context.preferred_language = returned.before[1].preferred_language

C19_Witness ==
    /\ returned.method = "_update_user_context"
    /\ returned.args = <<"english please help me">>
    /\ returned.before[1].args = returned.args
    /\ user_context.preferred_language = "english"
    /\ user_context.name # <<>>
    /\ Len(user_context.previous_issues) = 2

\* the score of each tier, and the tiers in their order
TierScore == [low |-> 0, medium |-> 5, high |-> 8, critical |-> 10]
TierRank == [low |-> 0, medium |-> 1, high |-> 2, critical |-> 3]

\* how protective a path is: the canned safety protocol ranks above the
\* generated reply
PathRank == [generate |-> 0, canned |-> 1]

\* C20: after a process_message call user_context.risk_level is the score
\* of the tier detected for the message (low 0, medium 5, high 8, critical
\* 10), a value within 0..10 that grows strictly with the tier; and a
\* message of a higher tier is never routed to a less protective path
\* than one of a lower tier: every tier above low gets the canned protocol
\* of that tier, and only low gets the generated reply.
C20_RiskAndRouteFollowTier ==
    /\ user_context.risk_level \in 0..10
    /\ Classified =>
        /\ Tier \in DOMAIN TierScore
        /\ last.trace.risk_level = TierScore[Tier]
        /\ user_context.risk_level = TierScore[Tier]
        /\ last.trace.path \in DOMAIN PathRank
        /\ \A below \in DOMAIN TierRank :
                TierRank[below] < TierRank[Tier] =>
                    /\ TierScore[below] < user_context.risk_level
                    /\ PathRank[last.trace.path]
                            >= PathRank[IF below = "low" THEN "generate" ELSE "canned"]
        /\ Tier # "low" => CannedReplyOf(Tier)
        /\ Tier = "low" => last.trace.path = "generate"

\* the headings of the two resource sections of a canned reply
HasLegalSection == Contains(last.text, "Relevant Legal Information:")
HasMedicalSection == Contains(last.text, "Relevant Medical/Health Information:")

\* C21: a canned reply carries the legal (the medical) resource section
\* if and only if the category of the message it answers is not general
\* and is a key of the legal (the medical) resource table; the reply to a
\* message of tier low carries neither.
C21_SectionsFollowCategory ==
    Classified =>
        /\ (last.trace.path = "canned" /\ last.trace.error = "") =>
            /\ HasLegalSection <=>
                    (last.trace.issue # "general"
                        /\ last.trace.issue \in DOMAIN legal_resources)
            /\ HasMedicalSection <=>
                    (last.trace.issue # "general"
                        /\ last.trace.issue \in DOMAIN medical_guidance)
        /\ Tier = "low" => (~HasLegalSection /\ ~HasMedicalSection)

\* the categories recorded in previous_issues, in the order of recording
RecordedIssues(context) == _decrypt_list(context.previous_issues)

\* the sequence has no item twice
NoRepeat(s) == \A i, j \in DOMAIN s : s[i] = s[j] => i = j

\* the texts of the messages a step works on
TextsOfStep ==
    {returned'.args[i] : i \in DOMAIN returned'.args}
        \cup {pending'[c][1].input.text :
                c \in {d \in Clients : pending'[d] # <<>> /\ pending'[d] # pending[d]}}
        \cup (IF last' # last /\ last'.input.kind = "str"
              THEN {last'.input.text} ELSE {})

\* C22: previous_issues is an ordered set over any sequence of messages:
\* it never holds a category twice, never holds general, every step keeps
\* the categories it held in their order, and a step adds at most one
\* category, the one of the message the step works on.
C22_PreviousIssuesIsAnOrderedSet ==
    [][LET old == RecordedIssues(user_context)
           new == RecordedIssues(user_context')
       IN  /\ NoRepeat(new)
           /\ "general" \notin Range(new)
           /\ Len(old) <= Len(new)
           /\ Len(new) <= Len(old) + 1
           /\ SubSeq(new, 1, Len(old)) = old
           /\ Len(new) = Len(old) + 1 =>
                new[Len(new)] \in {TextRead[t].issue_type : t \in TextsOfStep}]_vars

\* C26: name and location are set at most once: once either field holds
\* a value, no step changes it, whatever the message says.
C26_NameAndLocationAreSetOnce ==
    [][/\ user_context.name # <<>> => user_context'.name = user_context.name
       /\ user_context.location # <<>> =>
            user_context'.location = user_context.location]_vars

\* some phrase of the tier of the language's keyword table is in the
\* lower-cased text
PhraseOfTierIn(text, language, tier) ==
    \E i \in DOMAIN emergency_keywords[language][tier] :
        Contains(lower(text), emergency_keywords[language][tier][i])

\* the highest tier of the language's table a phrase of which is in the
\* text, as the result detect_emergency is to give
HighestTier(text, language) ==
    IF PhraseOfTierIn(text, language, "critical")
    THEN [is_emergency |-> TRUE, emergency_type |-> "critical", risk_level |-> 10]
    ELSE IF PhraseOfTierIn(text, language, "high")
    THEN [is_emergency |-> TRUE, emergency_type |-> "high", risk_level |-> 8]
    ELSE IF PhraseOfTierIn(text, language, "medium")
    THEN [is_emergency |-> TRUE, emergency_type |-> "medium", risk_level |-> 5]
    ELSE [is_emergency |-> FALSE, emergency_type |-> "low", risk_level |-> 0]

\* the highest tier of every message in every language that has a table
HighestTiers ==
    [t \in Messages |-> [l \in DOMAIN emergency_keywords |-> HighestTier(t, l)]]

\* detect_emergency, called for the text in this step, has given the
\* highest tier of the table of preferred_language as the text's own
\* update left it, whenever that language has a table
DetectedHighestTier(text, detected) ==
    LET own == TextRead[text].preferred_language
        language == IF own # "" THEN own ELSE user_context.preferred_language
    IN  language \in DOMAIN emergency_keywords =>
            /\ detected.is_emergency = HighestTiers[text][language].is_emergency
            /\ detected.emergency_type = HighestTiers[text][language].emergency_type
            /\ detected.risk_level = HighestTiers[text][language].risk_level

\* C23: when preferred_language, as updated by the current message, names
\* a keyword table, detect_emergency returns the highest tier among
\* critical, high and medium a phrase of which (in that table) is in the
\* lower-cased text, and (False, low, 0) when no phrase of the table is.
\* A thread's call is judged in the step that makes it, if the language
\* its update left is known in that step: the message sets it, or the
\* update is made in the same step.
C23_HighestTierOfTheUpdatedLanguage ==
    [][/\ (last' # last /\ last'.called /\ last'.input.kind = "str"
                /\ pending = NoPending) =>
            DetectedHighestTier(last'.input.text, last'.trace)
       /\ \A c \in Clients :
            (/\ pending'[c] # <<>>
             /\ pending'[c][1].pc = 5
             /\ pending[c] # pending'[c]
             /\ \/ TextRead[pending'[c][1].input.text].preferred_language # ""
                \/ pending[c] = <<>>
                \/ pending[c][1].pc < 4) =>
                DetectedHighestTier(pending'[c][1].input.text,
                                    pending'[c][1].detected)]_vars

\* s is the end of t
IsSuffix(s, t) ==
    Len(s) <= Len(t) /\ SubSeq(t, Len(t) - Len(s) + 1, Len(t)) = s

\* the entries of the request between the system entry and the last one
Replay(messages) == SubSeq(messages, 2, Len(messages) - 1)

\* C24: the request sent to the backend for a message is one system
\* entry, then the replayed history, then the current message; the
\* replayed entries are those of the turns before the message, in their
\* order, and the current message is not among them a second time.
C24_CurrentMessageIsSentOnce ==
    [][(last' # last /\ last'.called /\ last'.trace.backend_called) =>
            LET messages == last'.trace.messages
            IN  /\ Len(messages) >= 2
                /\ messages[1].role = "system"
                /\ \A i \in 2..Len(messages) : messages[i].role # "system"
                /\ messages[Len(messages)] =
                        [role |-> "user", content |-> last'.input.text]
                /\ IsSuffix(Replay(messages),
                            _get_recent_chat_history(chat_history, Len(chat_history)))]_vars

\* C25: a message that contains the word marathi sets preferred_language
\* to marathi (and so each of hindi, marathi and english, the languages
\* that have a keyword table, can be selected).
C25_MarathiIsSelectable ==
    (returned.method = "_update_user_context"
        /\ Contains(lower(returned.args[1]), "marathi")) =>
            user_context.preferred_language = "marathi"

====
